---------------------------- MODULE Spec2Model ----------------------------
(***************************************************************************)
(* Model of rust-editorconfig (src/src/lib.rs): crawl_paths, glob_match,   *)
(* parse_config, is_known_key and get_config_conffile.                     *)
(*                                                                         *)
(* A string is a sequence of one-character strings; a path is a sequence   *)
(* of components (each a string); an OrderMap is a sequence of <<key,      *)
(* value>> pairs with unique keys, in insertion order.                     *)
(***************************************************************************)
EXTENDS Integers, Sequences, FiniteSets, TLC

VARIABLES
    file_path,      \* get_config_conffile's argument: the target path
    targetExists,   \* whether the target file exists on the filesystem
    files,          \* directory depth (0 = "/") -> absent, malformed or a file of FilePool
    pc,             \* "start", "loop" or "done"
    paths,          \* candidates of crawl_paths not yet visited by the for loop
    result,         \* the OrderMap being accumulated
    status,         \* "running", "Ok", "Err" or "Panic"
    error,          \* which `?` produced the Err
    consulted,      \* history: the conf_paths handed to parse_config, in order
    layers,         \* history: the layers parse_config returned, in order
    broke,          \* history: the loop was left through the break of line 268
    gpattern,       \* glob_match's pattern
    gcandidate,     \* glob_match's candidate
    gresult,        \* glob_match's result: <<>> before the call, <<b>> after it
    layerIn,        \* the layer after glob matching, before derived-key inference
    layerOut,       \* the layer after derived-key inference
    lpc             \* "start" or "done" for the derived-key inference

vars == <<file_path, targetExists, files, pc, paths, result, status, error,
          consulted, layers, broke, gpattern, gcandidate, gresult, layerIn, layerOut, lpc>>

-----------------------------------------------------------------------------
(* Strings *)

Uppers == <<"A","B","C","D","E","F","G","H","I","J","K","L","M",
            "N","O","P","Q","R","S","T","U","V","W","X","Y","Z">>
Lowers == <<"a","b","c","d","e","f","g","h","i","j","k","l","m",
            "n","o","p","q","r","s","t","u","v","w","x","y","z">>

LowerOf == [c \in {Uppers[i] : i \in 1..26} |-> Lowers[CHOOSE i \in 1..26 : Uppers[i] = c]]

ToLowerCh(c) == IF c \in DOMAIN LowerOf THEN LowerOf[c] ELSE c

\* str::to_lowercase
to_lowercase(s) == [i \in 1..Len(s) |-> ToLowerCh(s[i])] \o <<>>

Pad(c, n) == [i \in 1..n |-> c] \o <<>>

Digits == {"0","1","2","3","4","5","6","7","8","9"}

DigitVal(c) == CHOOSE d \in 0..9 : <<"0","1","2","3","4","5","6","7","8","9">>[d + 1] = c

s_root == <<"r","o","o","t">>
s_true == <<"t","r","u","e">>
s_tab == <<"t","a","b">>
s_indent_style == <<"i","n","d","e","n","t","_","s","t","y","l","e">>
s_indent_size == <<"i","n","d","e","n","t","_","s","i","z","e">>
s_tab_width == <<"t","a","b","_","w","i","d","t","h">>
s_end_of_line == <<"e","n","d","_","o","f","_","l","i","n","e">>
s_charset == <<"c","h","a","r","s","e","t">>
s_trim_trailing_whitespace ==
    <<"t","r","i","m","_","t","r","a","i","l","i","n","g","_",
      "w","h","i","t","e","s","p","a","c","e">>
s_insert_final_newline ==
    <<"i","n","s","e","r","t","_","f","i","n","a","l","_","n","e","w","l","i","n","e">>

-----------------------------------------------------------------------------
(* OrderMap<String, String> *)

Keys(m) == {m[i][1] : i \in 1..Len(m)}

contains_key(m, k) == \E i \in 1..Len(m) : m[i][1] = k

IndexOf(m, k) == CHOOSE i \in 1..Len(m) : m[i][1] = k

\* OrderMap::get, for a key that is present
get(m, k) == m[IndexOf(m, k)][2]

\* OrderMap::insert: a present key keeps its position and takes the new value
insert(m, k, v) ==
    IF contains_key(m, k)
    THEN [m EXCEPT ![IndexOf(m, k)] = <<k, v>>]
    ELSE Append(m, <<k, v>>)

RECURSIVE InsertAll(_, _)
InsertAll(m, pairs) ==
    IF pairs = <<>> THEN m
    ELSE InsertAll(insert(m, Head(pairs)[1], Head(pairs)[2]), Tail(pairs))

-----------------------------------------------------------------------------
(* std::path *)

RootDir == <<"/">>
CurDir == <<".">>
ParentDir == <<".", ".">>

\* Path::parent().is_some()
has_parent(p) == p # <<>> /\ p[Len(p)] # RootDir

\* Path::parent(), for a path that has one
parent(p) == SubSeq(p, 1, Len(p) - 1)

\* PathBuf::pop
pop(p) == IF has_parent(p) THEN parent(p) ELSE p

\* Path::file_name().is_some()
has_file_name(p) == p # <<>> /\ p[Len(p)] \notin {RootDir, CurDir, ParentDir}

\* PathBuf::set_file_name
set_file_name(p, name) == Append(IF has_file_name(p) THEN pop(p) ELSE p, name)

\* Path::strip_prefix succeeds
is_prefix(base, p) == Len(base) <= Len(p) /\ SubSeq(p, 1, Len(base)) = base

\* Path::strip_prefix, for a base that is a prefix
strip_prefix(p, base) == SubSeq(p, Len(base) + 1, Len(p))

\* the path as a string, components joined by "/"
RECURSIVE PathString(_)
PathString(p) ==
    IF p = <<>> THEN <<>>
    ELSE IF Len(p) = 1 THEN p[1]
    ELSE IF p[1] = RootDir THEN <<"/">> \o PathString(Tail(p))
    ELSE p[1] \o <<"/">> \o PathString(Tail(p))

-----------------------------------------------------------------------------
\* glob_match.  The translation of lines 65-114 is modelled for patterns built
\* from literal characters, ".", "/" (not leading, not around a double star),
\* the star, the double star, "(" and numeric ranges {N..M}.  The translated
\* expression is a sequence of atoms:
\*   lit c    the character c
\*   star     any run of characters other than "/"       (line 76)
\*   dotstar  any run of characters                      (line 77)
\*   num      the capture group for "0" or an optionally signed integer
\*            without leading zero                       (line 84)
\*   lparen   an unescaped "(", never closed
\*   anydir   the optional group: a lazy run of characters, then "/" (line 112)

RECURSIVE DigitRun(_, _)
DigitRun(s, i) ==
    IF i <= Len(s) /\ s[i] \in Digits THEN 1 + DigitRun(s, i + 1) ELSE 0

\* length of the match of -?\d+ at position i of s, 0 when there is none
NumLen(s, i) ==
    LET sign == IF i <= Len(s) /\ s[i] = "-" THEN 1 ELSE 0
        d == DigitRun(s, i + sign)
    IN IF d = 0 THEN 0 ELSE sign + d

\* length of the match of numeric_range_regex at the head of p, 0 when there is none
RangeLen(p) ==
    IF p = <<>> \/ p[1] # "{" THEN 0
    ELSE LET n1 == NumLen(p, 2)
             n2 == NumLen(p, 4 + n1)
         IN IF /\ n1 > 0
               /\ 3 + n1 <= Len(p) /\ p[2 + n1] = "." /\ p[3 + n1] = "."
               /\ n2 > 0
               /\ 4 + n1 + n2 <= Len(p) /\ p[4 + n1 + n2] = "}"
            THEN 4 + n1 + n2 ELSE 0

Drop(s, n) == SubSeq(s, n + 1, Len(s))

\* the expression the pattern is translated to, before anchoring
RECURSIVE translate(_)
translate(p) ==
    IF p = <<>> THEN <<>>
    ELSE IF Len(p) >= 2 /\ p[1] = "*" /\ p[2] = "*"
         THEN <<[t |-> "dotstar"]>> \o translate(Drop(p, 2))
    ELSE IF p[1] = "*" THEN <<[t |-> "star"]>> \o translate(Tail(p))
    ELSE IF RangeLen(p) > 0 THEN <<[t |-> "num"]>> \o translate(Drop(p, RangeLen(p)))
    ELSE IF p[1] = "(" THEN <<[t |-> "lparen"]>> \o translate(Tail(p))
    ELSE <<[t |-> "lit", c |-> p[1]]>> \o translate(Tail(p))

\* the captures of numeric_range_regex in the pattern: the texts of N and M
RECURSIVE numeric_ranges(_)
numeric_ranges(p) ==
    IF p = <<>> THEN <<>>
    ELSE IF RangeLen(p) > 0
         THEN LET n1 == NumLen(p, 2)
              IN <<[min |-> SubSeq(p, 2, 1 + n1),
                    max |-> SubSeq(p, 4 + n1, RangeLen(p) - 1)]>>
                 \o numeric_ranges(Drop(p, RangeLen(p)))
    ELSE numeric_ranges(Tail(p))

\* the expression of line 114
final_pattern(pattern) ==
    LET orig_had_slash == \E i \in 1..Len(pattern) : pattern[i] = "/"
        leading_expr == IF orig_had_slash THEN <<>> ELSE <<[t |-> "anydir"]>>
    IN leading_expr \o translate(pattern)

\* Regex::new succeeds: every group opened is closed
regex_compiles(re) == \A i \in 1..Len(re) : re[i].t # "lparen"

Desc(hi, lo) == [i \in 1..(hi - lo + 1) |-> hi - i + 1]

RECURSIVE NoSlashRun(_, _)
NoSlashRun(s, i) ==
    IF i <= Len(s) /\ s[i] # "/" THEN 1 + NoSlashRun(s, i + 1) ELSE 0

\* the lengths of the prefixes of s the atom can match, in the order the
\* backtracking matcher tries them
Lens(a, s) ==
    CASE a.t = "lit" -> IF s # <<>> /\ s[1] = a.c THEN <<1>> ELSE <<>>
      [] a.t = "star" -> Desc(NoSlashRun(s, 1), 0)
      [] a.t = "dotstar" -> Desc(Len(s), 0)
      [] a.t = "anydir" ->
            SelectSeq([i \in 1..Len(s) |-> i], LAMBDA k : s[k] = "/") \o <<0>>
      [] a.t = "num" ->
            IF s # <<>> /\ s[1] = "0" THEN <<1>>
            ELSE LET sign == IF s # <<>> /\ s[1] = "-" THEN 1 ELSE 0
                     d == DigitRun(s, 1 + sign)
                 IN IF d = 0 \/ s[1 + sign] = "0" THEN <<>>
                    ELSE Desc(sign + d, sign + 1)
      [] OTHER -> <<>>

\* the matches of the anchored expression re in s: <<>> when there is none,
\* else one match, given as the texts of its capture groups
RECURSIVE captures_iter(_, _), TryLens(_, _, _, _)
captures_iter(re, s) ==
    IF re = <<>> THEN (IF s = <<>> THEN << <<>> >> ELSE <<>>)
    ELSE TryLens(Head(re), Tail(re), s, Lens(Head(re), s))

TryLens(a, rest, s, lens) ==
    IF lens = <<>> THEN <<>>
    ELSE LET n == Head(lens)
             r == captures_iter(rest, Drop(s, n))
         IN IF r # <<>>
            THEN (IF a.t = "num" THEN << <<SubSeq(s, 1, n)>> \o r[1] >> ELSE r)
            ELSE TryLens(a, rest, s, Tail(lens))

is_match(re, s) == captures_iter(re, s) # <<>>

I32Max == 2147483647
I32Min == (0 - I32Max) - 1

\* the checked accumulation of str::parse::<i32>: digit by digit, negatively
\* for a negative number; <<FALSE, _>> on overflow
RECURSIVE Accumulate(_, _, _)
Accumulate(ds, acc, neg) ==
    IF ds = <<>> THEN <<TRUE, acc>>
    ELSE LET d == DigitVal(Head(ds))
         IN IF neg
            THEN (IF acc < (I32Min + d) \div 10 + (IF (I32Min + d) % 10 = 0 THEN 0 ELSE 1)
                  THEN <<FALSE, 0>>
                  ELSE Accumulate(Tail(ds), acc * 10 - d, neg))
            ELSE (IF acc > (I32Max - d) \div 10
                  THEN <<FALSE, 0>>
                  ELSE Accumulate(Tail(ds), acc * 10 + d, neg))

\* str::parse::<i32>
parse_i32(text) ==
    LET signed == text # <<>> /\ text[1] \in {"-", "+"}
        ds == IF signed THEN Tail(text) ELSE text
        wellFormed == ds # <<>> /\ \A i \in 1..Len(ds) : ds[i] \in Digits
        r == IF wellFormed THEN Accumulate(ds, 0, signed /\ text[1] = "-")
             ELSE <<FALSE, 0>>
    IN [ok |-> r[1], val |-> r[2]]

Min2(a, b) == IF a < b THEN a ELSE b

\* lines 120-135: one (num, range_spec) pair of the zip passes
range_ok(m, range_spec) ==
    LET num == parse_i32(m[1])
        min == parse_i32(range_spec.min)
        max == parse_i32(range_spec.max)
    IN /\ num.ok
       /\ min.ok
       /\ max.ok
       /\ ~(min.val > num.val \/ num.val > max.val)

\* lines 116-139, for a pattern whose expression compiles
glob_match(pattern, candidate) ==
    LET final_regex == final_pattern(pattern)
        ranges == numeric_ranges(pattern)
        has_numeric_ranges == ranges # <<>>
        caps == captures_iter(final_regex, candidate)
    IN IF has_numeric_ranges /\ is_match(final_regex, candidate)
       THEN \A i \in 1..Min2(Len(caps), Len(ranges)) : range_ok(caps[i], ranges[i])
       ELSE is_match(final_regex, candidate)

\* line 116: Regex::new(&pattern).unwrap() panics
glob_panics(pattern) == ~regex_compiles(final_pattern(pattern))

-----------------------------------------------------------------------------
(* The filesystem: the target is /d1/.../dn/f2, the working directory is   *)
(* /d1, and each directory of the chain may hold a configuration file.     *)

\* the number of directories below "/" on the way to the target
Depth == 2

DirNames == <<<<"a">>, <<"b">>, <<"c">>, <<"d">>>>
TargetName == <<"f", "2">>
s_editorconfig == <<".","e","d","i","t","o","r","c","o","n","f","i","g">>

\* the directory at depth d, as an absolute path
Dir(d) == <<RootDir>> \o SubSeq(DirNames, 1, d)

AbsTarget == Append(Dir(Depth), TargetName)
Cwd == Dir(1)

\* the absolute path a path names from the working directory
absolute(p) ==
    IF p # <<>> /\ p[1] = RootDir THEN p
    ELSE Cwd \o (IF p # <<>> /\ p[1] = CurDir THEN Tail(p) ELSE p)

\* the depth of the directory that holds the file p
DepthOf(p) == Len(absolute(p)) - 2

\* Path::exists
exists(p) ==
    LET q == absolute(p)
    IN \/ \E d \in 0..Depth : q = Dir(d)
       \/ q = AbsTarget /\ targetExists
       \/ \E d \in 0..Depth : q = Append(Dir(d), s_editorconfig) /\ files[d].kind # "absent"

\* Path::canonicalize, of a path that exists
canonicalize(p) == absolute(p)

\* lines 23-31
RECURSIVE crawl_loop(_, _)
crawl_loop(path, conffile) ==
    IF ~has_parent(path) THEN <<>>
    ELSE LET adjacent_file == set_file_name(path, conffile)
         IN (IF exists(adjacent_file) THEN <<adjacent_file>> ELSE <<>>)
            \o crawl_loop(pop(path), conffile)

\* a crawl that does not filter the candidates by existence
RECURSIVE crawl_all(_, _)
crawl_all(path, conffile) ==
    IF ~has_parent(path) THEN <<>>
    ELSE <<set_file_name(path, conffile)>> \o crawl_all(pop(path), conffile)

crawl_paths_unfiltered(path, conffile) ==
    crawl_all(IF exists(path) THEN canonicalize(path) ELSE path, conffile)

crawl_paths(path, conffile) ==
    crawl_loop(IF exists(path) THEN canonicalize(path) ELSE path, conffile)

-----------------------------------------------------------------------------
(* The contents a configuration file may have: the sections the ini parser *)
(* yields, in file order; the unscoped preamble has the label None.        *)

None == <<"None">>

MaxLabelLen == 4096

Sec(label, data) == [label |-> label, data |-> data]

P_star == <<"*">>
P_hit == <<"f","{","1",".",".","3","}">>
P_miss == <<"f","{","3",".",".","5","}">>
P_ext == <<"*",".","q">>
P_slash == <<"b","/","*">>
P_two == <<"*","2">>
P_bad == <<"(">>
P_long == Pad("*", MaxLabelLen + 1)

FilePool == <<
    \* 1: root = true; known keys with upper-case values, one key not lower-case
    << Sec(None, << <<s_root, s_true>> >>),
       Sec(P_star, << <<s_indent_style, <<"S","p","a","c","e">> >>,
                      <<<<"E","n","d","_","O","f","_","L","i","n","e">>, <<"L","F">> >> >>) >>,
    \* 2: indent_style = tab; a key and a value that are not lower-case
    << Sec(P_star, << <<s_indent_style, s_tab>>,
                      <<<<"N","a","m","e">>, <<"A","b">> >> >>) >>,
    \* 3: root = TRUE in the preamble, root = false in a matching section
    << Sec(None, << <<s_root, <<"T","R","U","E">> >> >>),
       Sec(P_star, << <<s_root, <<"f","a","l","s","e">> >>, <<<<"x">>, <<"1">> >> >>) >>,
    \* 4: no preamble, root = True in a matching section
    << Sec(P_star, << <<s_root, <<"T","r","u","e">> >>, <<s_tab_width, <<"8">> >>,
                      <<<<"n","a","m","e">>, <<"C","d">> >> >>) >>,
    \* 5: a section whose pattern does not compile
    << Sec(P_star, << <<<<"y">>, <<"1">> >> >>),
       Sec(P_bad, << <<<<"x">>, <<"1">> >> >>) >>,
    \* 6: numeric ranges, an extension, a pattern with a slash, a pattern over
    \* the length limit; a later section
    \* overrides an earlier one; two keys that differ in case only; indent_size
    \* without tab_width
    << Sec(None, << <<s_root, <<"f","a","l","s","e">> >> >>),
       Sec(P_hit, << <<<<"n">>, <<"i","n">> >>, <<<<"y">>, <<"1">> >>,
                     <<<<"X">>, <<"U">> >> >>),
       Sec(P_miss, << <<<<"n">>, <<"o","u","t">> >> >>),
       Sec(P_ext, << <<<<"q">>, <<"1">> >> >>),
       Sec(P_slash, << <<<<"s">>, <<"1">> >> >>),
       Sec(P_long, << <<<<"l">>, <<"1">> >> >>),
       Sec(P_two, << <<<<"x">>, <<"l">> >>, <<<<"y">>, <<"2">> >>,
                     <<s_indent_size, <<"4">> >> >>) >>,
    \* 7: keys and values at and over the length limits
    << Sec(P_star, << <<Pad("K", 51), <<"v">> >>,
                      <<Pad("K", 50), <<"v">> >>,
                      <<<<"x">>, Pad("V", 256)>>,
                      <<<<"y">>, Pad("V", 255)>>,
                      <<s_charset, Pad("U", 255)>> >>) >>
>>

FileChoices ==
    {[kind |-> "absent", content |-> 0], [kind |-> "malformed", content |-> 0]}
    \cup {[kind |-> "file", content |-> i] : i \in 1..Len(FilePool)}

TargetForms == {AbsTarget,
                strip_prefix(AbsTarget, Cwd),
                <<CurDir>> \o strip_prefix(AbsTarget, Cwd)}

-----------------------------------------------------------------------------
(* parse_config *)

\* lines 157-168: the sections whose pattern matches, in file order
RECURSIVE section_loop(_, _, _)
section_loop(sections, target, acc) ==
    IF sections = <<>> THEN [panic |-> FALSE, map |-> acc]
    ELSE LET label == Head(sections).label
             data == Head(sections).data
         IN IF label = None THEN section_loop(Tail(sections), target, acc)
            ELSE IF Len(label) > MaxLabelLen THEN section_loop(Tail(sections), target, acc)
            ELSE IF glob_panics(label) THEN [panic |-> TRUE, map |-> acc]
            ELSE IF glob_match(label, target)
                 THEN section_loop(Tail(sections), target, InsertAll(acc, data))
            ELSE section_loop(Tail(sections), target, acc)

\* derived keys with the else branch of line 184 applied to every indent_size
post_process_eager(layer) ==
    LET r1 == IF /\ contains_key(layer, s_indent_style)
                 /\ get(layer, s_indent_style) = s_tab
                 /\ ~contains_key(layer, s_indent_size)
              THEN insert(layer, s_indent_size, s_tab)
              ELSE layer
    IN IF contains_key(r1, s_indent_size)
       THEN IF contains_key(r1, s_tab_width)
            THEN insert(r1, s_indent_size, get(r1, s_tab_width))
            ELSE IF get(r1, s_indent_size) # s_tab
            THEN insert(r1, s_tab_width, get(r1, s_indent_size))
            ELSE r1
       ELSE r1

\* lines 172-189: derived keys
post_process(layer) ==
    LET r1 == IF /\ contains_key(layer, s_indent_style)
                 /\ get(layer, s_indent_style) = s_tab
                 /\ ~contains_key(layer, s_indent_size)
              THEN insert(layer, s_indent_size, s_tab)
              ELSE layer
    IN IF contains_key(r1, s_indent_size)
       THEN IF get(r1, s_indent_size) # s_tab
            THEN (IF ~contains_key(r1, s_tab_width)
                  THEN insert(r1, s_tab_width, get(r1, s_indent_size))
                  ELSE r1)
            ELSE (IF contains_key(r1, s_tab_width)
                  THEN insert(r1, s_indent_size, get(r1, s_tab_width))
                  ELSE r1)
       ELSE r1

\* lines 146-152: the layer starts with root = true when the preamble says so
general_root(ini_data) ==
    IF \E i \in 1..Len(ini_data) :
          /\ ini_data[i].label = None
          /\ contains_key(ini_data[i].data, s_root)
          /\ to_lowercase(get(ini_data[i].data, s_root)) = s_true
    THEN << <<s_root, s_true>> >>
    ELSE <<>>

\* parse_config: [tag |-> "Ok", map |-> the layer], [tag |-> "Err", err |-> ...]
\* or [tag |-> "Panic"]
parse_config(target, conf_file) ==
    LET context == parent(conf_file)
        content == files[DepthOf(conf_file)]
    IN IF content.kind \in {"absent", "malformed"}
       THEN [tag |-> "Err", err |-> "ParseError", map |-> <<>>]
       ELSE IF ~is_prefix(context, target)
       THEN [tag |-> "Err", err |-> "StripPrefixError", map |-> <<>>]
       ELSE LET ini_data == FilePool[content.content]
                rel == PathString(strip_prefix(target, context))
                matched == section_loop(ini_data, rel, general_root(ini_data))
            IN IF matched.panic
               THEN [tag |-> "Panic", err |-> "none", map |-> <<>>]
               ELSE [tag |-> "Ok", err |-> "none", map |-> post_process(matched.map)]

-----------------------------------------------------------------------------
(* get_config_conffile *)

KeyMax == 50
ValueMax == 255

\* every key taken for a known key
is_known_key_always(key) == TRUE

\* lines 193-202
is_known_key(key) ==
    key \in {s_indent_style, s_indent_size, s_tab_width, s_end_of_line, s_charset,
             s_trim_trailing_whitespace, s_insert_final_newline}

\* lines 249-262
RECURSIVE merge_options(_, _)
merge_options(options, acc) ==
    IF options = <<>> THEN acc
    ELSE LET k == to_lowercase(Head(options)[1])
             v == IF is_known_key(k) THEN to_lowercase(Head(options)[2])
                  ELSE Head(options)[2]
         IN IF Len(k) > KeyMax \/ Len(v) > ValueMax
            THEN merge_options(Tail(options), acc)
            ELSE IF ~contains_key(acc, k) /\ k # s_root
            THEN merge_options(Tail(options), insert(acc, k, v))
            ELSE merge_options(Tail(options), acc)

\* a merge in which the farther file's pairs replace the nearer files' pairs
merge_layer_farther_wins(old_result, options) ==
    InsertAll(old_result, merge_options(options, <<>>))

\* a merge that keeps the nearer files' pairs in place and appends the new keys
merge_layer_append(old_result, options) == merge_options(options, old_result)

\* lines 247-265: the layer's pairs first, then the nearer files' pairs over them
merge_layer(old_result, options) == InsertAll(merge_options(options, <<>>), old_result)

\* the root value compared without lower-casing it
is_root_layer_exact(options) ==
    contains_key(options, s_root) /\ get(options, s_root) = s_true

\* lines 266-270
is_root_layer(options) ==
    contains_key(options, s_root) /\ to_lowercase(get(options, s_root)) = s_true

GlobIdle == /\ gpattern = <<>> /\ gcandidate = <<>> /\ gresult = <<>>
LayerIdle == /\ layerIn = <<>> /\ layerOut = <<>> /\ lpc = "idle"

Init ==
    /\ file_path \in TargetForms
    /\ targetExists \in BOOLEAN
    /\ files \in [0..Depth -> FileChoices]
    /\ pc = "start"
    /\ paths = <<>>
    /\ result = <<>>
    /\ status = "running"
    /\ error = "none"
    /\ consulted = <<>>
    /\ layers = <<>>
    /\ broke = FALSE
    /\ GlobIdle
    /\ LayerIdle

\* line 242
CrawlPaths ==
    /\ pc = "start"
    /\ paths' = crawl_paths(file_path, s_editorconfig)
    /\ pc' = "loop"
    /\ UNCHANGED <<file_path, targetExists, files, result, status, error, consulted,
                   layers, broke, gpattern, gcandidate, gresult, layerIn, layerOut, lpc>>

\* one iteration of the loop of lines 245-271, on the candidate conf_path: it
\* goes on to the next candidate, ends with the break of line 268 and the
\* return of line 272, returns the error of parse_config (line 246), or
\* panics in glob_match (line 116)
Iterate ==
    /\ pc = "loop" /\ paths # <<>>
    /\ LET conf_path == Head(paths)
           options == parse_config(file_path, conf_path)
       IN /\ consulted' = Append(consulted, conf_path)
          /\ paths' = Tail(paths)
          /\ IF options.tag = "Ok"
             THEN /\ result' = merge_layer(result, options.map)
                  /\ layers' = Append(layers, options.map)
                  /\ broke' = is_root_layer(options.map)
                  /\ pc' = IF is_root_layer(options.map) THEN "done" ELSE "loop"
                  /\ status' = IF is_root_layer(options.map) THEN "Ok" ELSE "running"
                  /\ error' = error
             ELSE /\ pc' = "done"
                  /\ status' = options.tag
                  /\ error' = options.err
                  /\ UNCHANGED <<result, layers, broke>>
    /\ UNCHANGED <<file_path, targetExists, files,
                   gpattern, gcandidate, gresult, layerIn, layerOut, lpc>>

\* line 272, the candidates exhausted
Return ==
    /\ pc = "loop" /\ paths = <<>>
    /\ pc' = "done"
    /\ status' = "Ok"
    /\ UNCHANGED <<file_path, targetExists, files, paths, result, error, consulted,
                   layers, broke, gpattern, gcandidate, gresult, layerIn, layerOut, lpc>>

Next == CrawlPaths \/ Iterate \/ Return

Spec == Init /\ [][Next]_vars

-----------------------------------------------------------------------------
(* glob_match on patterns of numeric ranges *)

\* the number of numeric ranges in a pattern
MaxRanges == 2

Range(min, max) == <<"{">> \o min \o <<".", ".">> \o max \o <<"}">>

RangePool == {Range(<<"1">>, <<"3">>), Range(<<"5">>, <<"7">>),
              Range(<<"-", "2">>, <<"1", "0">>)}

NumberTexts == {<<"0">>, <<"2">>, <<"6">>, <<"1", "2">>, <<"-", "1">>, <<"0", "2">>}

\* the parts joined by "."
RECURSIVE Dotted(_)
Dotted(parts) ==
    IF Len(parts) = 1 THEN parts[1]
    ELSE parts[1] \o <<".">> \o Dotted(Tail(parts))

DottedOver(S) == {Dotted(parts) : parts \in UNION {[1..n -> S] : n \in 1..MaxRanges}}

MainIdle ==
    /\ file_path = <<>> /\ targetExists = FALSE /\ files = <<>>
    /\ pc = "idle" /\ paths = <<>> /\ result = <<>> /\ status = "idle"
    /\ error = "none" /\ consulted = <<>> /\ layers = <<>> /\ broke = FALSE

InitGlob ==
    /\ gpattern \in DottedOver(RangePool)
    /\ gcandidate \in DottedOver(NumberTexts)
    /\ gresult = <<>>
    /\ MainIdle
    /\ LayerIdle

GlobMatch ==
    /\ gresult = <<>>
    /\ gresult' = <<glob_match(gpattern, gcandidate)>>
    /\ UNCHANGED <<file_path, targetExists, files, pc, paths, result, status, error,
                   consulted, layers, broke, gpattern, gcandidate,
                   layerIn, layerOut, lpc>>

NextGlob == GlobMatch

SpecGlob == InitGlob /\ [][NextGlob]_vars

-----------------------------------------------------------------------------
(* the derived-key inference of parse_config on the layers over a few keys *)

\* the number of pairs of a layer
MaxLayerLen == 3

LayerKeys == {s_indent_style, s_indent_size, s_tab_width, <<"x">>}
LayerValues == {s_tab, <<"4">>, <<"8">>, <<"T", "a", "b">>}

LayerSet ==
    {m \in UNION {[1..n -> LayerKeys \X LayerValues] : n \in 0..MaxLayerLen} :
        \A i, j \in 1..Len(m) : m[i][1] = m[j][1] => i = j}

InitLayer ==
    /\ layerIn \in LayerSet
    /\ layerOut = <<>>
    /\ lpc = "start"
    /\ MainIdle
    /\ GlobIdle

PostProcess ==
    /\ lpc = "start"
    /\ layerOut' = post_process(layerIn)
    /\ lpc' = "done"
    /\ UNCHANGED <<file_path, targetExists, files, pc, paths, result, status, error,
                   consulted, layers, broke, gpattern, gcandidate, gresult, layerIn>>

NextLayer == PostProcess

SpecLayer == InitLayer /\ [][NextLayer]_vars

-----------------------------------------------------------------------------
(* What the properties below say about a layer's pairs *)

KnownKeyNames == {s_indent_style, s_indent_size, s_tab_width, s_end_of_line,
                  s_charset, s_trim_trailing_whitespace, s_insert_final_newline}

\* the layer's pairs as the merge sees them: the lower-cased key, the value
\* (lower-cased for a known key), and whether the pair passes the length limits
Norm(layer) ==
    [j \in 1..Len(layer) |->
        LET k == to_lowercase(layer[j][1])
            v == IF k \in KnownKeyNames THEN to_lowercase(layer[j][2]) ELSE layer[j][2]
        IN [k |-> k, v |-> v, kept |-> Len(k) <= KeyMax /\ Len(v) <= ValueMax]] \o <<>>

\* the layers of the consulted files, nearest first
NormLayers == [i \in 1..Len(layers) |-> Norm(layers[i])] \o <<>>

\* the layer holds a non-discarded pair for the key k
Contributes(nlayer, k) ==
    \E j \in 1..Len(nlayer) : nlayer[j].kept /\ nlayer[j].k = k

\* the normalized value of the layer's first non-discarded pair for k
Contribution(nlayer, k) ==
    LET hits == {j \in 1..Len(nlayer) : nlayer[j].kept /\ nlayer[j].k = k}
    IN nlayer[CHOOSE j \in hits : \A h \in hits : j <= h].v

Contributors(nl, k) == {i \in 1..Len(nl) : Contributes(nl[i], k)}

\* the nearest and the farthest consulted file that contributes k
Nearest(nl, k) ==
    LET c == Contributors(nl, k) IN CHOOSE i \in c : \A j \in c : i <= j
Farthest(nl, k) ==
    LET c == Contributors(nl, k) IN CHOOSE i \in c : \A j \in c : i >= j

RootTrue(layer) ==
    \E i \in 1..Len(layer) : layer[i][1] = s_root /\ to_lowercase(layer[i][2]) = s_true

Returned == pc = "done" /\ status = "Ok"

\* the file at conf_path declares root = true (any case) in its preamble
PreambleRoot(conf_path) ==
    LET ini_data == FilePool[files[DepthOf(conf_path)].content]
    IN \E i \in 1..Len(ini_data) :
          /\ ini_data[i].label = None
          /\ \E j \in 1..Len(ini_data[i].data) :
                /\ ini_data[i].data[j][1] = s_root
                /\ to_lowercase(ini_data[i].data[j][2]) = s_true

-----------------------------------------------------------------------------
(* Properties *)

\* C1: closest wins.  The files are consulted nearest first, and every key of
\* the mapping has the normalized value of the nearest consulted file whose
\* layer holds a non-discarded pair for it.
C1_ClosestWins ==
    LET nl == NormLayers
    IN /\ \A i, j \in 1..Len(consulted) :
             i < j => DepthOf(consulted[i]) >= DepthOf(consulted[j])
       /\ \A n \in 1..Len(result) :
             LET k == result[n][1]
             IN /\ Contributors(nl, k) # {}
                /\ result[n][2] = Contribution(nl[Nearest(nl, k)], k)

\* a nearer and a farther file give different values for a key the result
\* holds, and the farthest file alone gives another key
C1_Witness ==
    LET nl == NormLayers
    IN /\ Returned
       /\ Len(layers) >= 2
       /\ \E k \in Keys(result) :
             /\ Cardinality(Contributors(nl, k)) >= 2
             /\ \E j \in Contributors(nl, k) :
                   Contribution(nl[j], k) # Contribution(nl[Nearest(nl, k)], k)
       /\ \E k \in Keys(result) : Contributors(nl, k) = {Len(layers)}

\* C2: a file whose layer has root = true (any case) has its keys merged, is
\* the last file consulted, and the call returns Ok whatever lies farther.
C2_RootStops ==
    \A i \in 1..Len(layers) :
        RootTrue(layers[i]) =>
            /\ i = Len(layers)
            /\ Len(consulted) = i
            /\ Returned
            /\ LET nlayer == Norm(layers[i])
               IN \A n \in 1..Len(nlayer) :
                     (nlayer[n].kept /\ nlayer[n].k # s_root)
                         => nlayer[n].k \in Keys(result)

\* the cascade stopped at a file that contributed a key, before a malformed
\* farther file
C2_Witness ==
    /\ broke
    /\ paths # <<>>
    /\ files[DepthOf(Head(paths))].kind = "malformed"
    /\ \E k \in Keys(result) : Contributors(NormLayers, k) = {Len(layers)}

\* C3: an error is returned only when the ini parser failed on a consulted file.
C3_ErrOnlyFromParser == status = "Err" => error = "ParseError"

NoConfFile == \A d \in 0..Depth : files[d].kind = "absent"

\* C4: with no configuration file in the chain the call returns Ok and an
\* empty mapping.
C4_EmptyOk == (pc = "done" /\ NoConfFile) => (status = "Ok" /\ result = <<>>)

C4_Witness == pc = "done" /\ NoConfFile /\ paths = <<>> /\ consulted = <<>>

\* C5: every pair of the mapping has a lower-case key of at most 50 characters
\* other than root and a value of at most 255 characters, lower-cased for a
\* known key and exactly as some file wrote it otherwise.
C5_Normalized ==
    \A n \in 1..Len(result) :
        LET k == result[n][1]
            v == result[n][2]
        IN /\ k = to_lowercase(k)
           /\ Len(k) <= KeyMax
           /\ k # s_root
           /\ Len(v) <= ValueMax
           /\ k \in KnownKeyNames => v = to_lowercase(v)
           /\ k \notin KnownKeyNames =>
                 \E i \in 1..Len(layers) : \E j \in 1..Len(layers[i]) :
                     to_lowercase(layers[i][j][1]) = k /\ layers[i][j][2] = v

\* a layer had pairs over both limits, a known key's value was lower-cased and
\* another key kept a value that is not lower-case
C5_Witness ==
    /\ Returned
    /\ \E i \in 1..Len(layers) :
          /\ \E j \in 1..Len(layers[i]) : Len(layers[i][j][1]) > KeyMax
          /\ \E j \in 1..Len(layers[i]) : Len(layers[i][j][2]) > ValueMax
          /\ \E j \in 1..Len(layers[i]) :
                /\ to_lowercase(layers[i][j][1]) \in KnownKeyNames
                /\ layers[i][j][2] # to_lowercase(layers[i][j][2])
                /\ <<to_lowercase(layers[i][j][1]), to_lowercase(layers[i][j][2])>>
                      \in {result[n] : n \in 1..Len(result)}
    /\ \E n \in 1..Len(result) :
          result[n][1] \notin KnownKeyNames /\ result[n][2] # to_lowercase(result[n][2])

\* C6: the three rules of the derived-key inference, each applied once to the
\* layer the previous one left.
Rule1(m) ==
    IF contains_key(m, s_indent_style) /\ get(m, s_indent_style) = s_tab
       /\ ~contains_key(m, s_indent_size)
    THEN insert(m, s_indent_size, s_tab) ELSE m

Rule2(m) ==
    IF contains_key(m, s_indent_size) /\ get(m, s_indent_size) # s_tab
       /\ ~contains_key(m, s_tab_width)
    THEN insert(m, s_tab_width, get(m, s_indent_size)) ELSE m

Rule3(m) ==
    IF contains_key(m, s_indent_size) /\ get(m, s_indent_size) = s_tab
       /\ contains_key(m, s_tab_width)
    THEN insert(m, s_indent_size, get(m, s_tab_width)) ELSE m

C6_DerivedKeys == lpc = "done" => layerOut = Rule3(Rule2(Rule1(layerIn)))

\* indent_style = tab without indent_size, with tab_width: rules 1 and 3 act
C6_Witness ==
    /\ lpc = "done"
    /\ contains_key(layerIn, s_indent_style) /\ get(layerIn, s_indent_style) = s_tab
    /\ ~contains_key(layerIn, s_indent_size)
    /\ contains_key(layerIn, s_tab_width)
    /\ get(layerOut, s_indent_size) = get(layerIn, s_tab_width)

\* C7: glob_match returns true only if the expression matches and every
\* captured integer lies within the bounds of the range at its position.
C7_EveryRangeChecked ==
    (gresult # <<>> /\ gresult[1]) =>
        LET caps == captures_iter(final_pattern(gpattern), gcandidate)
            ranges == numeric_ranges(gpattern)
        IN /\ caps # <<>>
           /\ \A i \in 1..Len(ranges) :
                 /\ parse_i32(ranges[i].min).val <= parse_i32(caps[1][i]).val
                 /\ parse_i32(caps[1][i]).val <= parse_i32(ranges[i].max).val

\* C8: a pattern that does not compile never aborts the resolution.
C8_FailSoft == status # "Panic"

\* C9, as stated: the keys are unique and a key a nearer file contributes
\* comes before a key first contributed by a farther file.
C9_NearestFirstOrder ==
    Returned =>
        LET nl == NormLayers
            first == [n \in 1..Len(result) |-> Nearest(nl, result[n][1])] \o <<>>
        IN /\ \A m, n \in 1..Len(result) : result[m][1] = result[n][1] => m = n
           /\ \A m, n \in 1..Len(result) : first[m] < first[n] => m < n

\* C9, amended: the keys are unique and a key a farther file contributes comes
\* before a key that only nearer files contribute.
C9_FarthestFirstOrder ==
    LET nl == NormLayers
        last == [n \in 1..Len(result) |-> Farthest(nl, result[n][1])] \o <<>>
    IN /\ \A m, n \in 1..Len(result) : result[m][1] = result[n][1] => m = n
       /\ \A m, n \in 1..Len(result) : last[m] > last[n] => m < n

\* two files each contribute a key the other does not
C9_Witness ==
    /\ Returned
    /\ \E m, n \in 1..Len(result) :
          /\ Contributors(NormLayers, result[m][1]) = {2}
          /\ Contributors(NormLayers, result[n][1]) = {1}

\* C10: a consulted file ends the cascade exactly when its preamble declares
\* root = true.
C10_RootOnlyFromPreamble ==
    \A i \in 1..Len(layers) :
        (broke /\ i = Len(layers)) <=> PreambleRoot(consulted[i])

=============================================================================
